---- MODULE Spec2Model ----
(***************************************************************************)
(* A top-to-bottom run of the notebook                                     *)
(*   03_MultiModelEndpointWithHuggingFace/                                 *)
(*       huggingface-sagemaker-multi-model-endpoint.ipynb                  *)
(* as a state machine.  The state is the notebook's Python namespace, the  *)
(* local file system the cells read and write, and the log of the calls    *)
(* the cells make to S3 and to the SageMaker clients.  One action models   *)
(* one code cell, or one service call of a cell that makes several.  The   *)
(* notebook has no try/except: a statement that raises ends the run.       *)
(*                                                                         *)
(* The notebook is the only program in the repository.  The model-serving  *)
(* cache its markdown describes (loading, unloading, storage eviction) is  *)
(* the managed service's and has no code here, so it is not modelled.      *)
(***************************************************************************)
EXTENDS Naturals, Sequences, FiniteSets, TLC

VARIABLES
    pc,                 \* the statement the run is at, "done" or "raised"
    fs,                 \* the local paths that exist
    region,             \* namespace: region            (line 82)
    bucket,             \* namespace: bucket            (line 84)
    model_path,         \* namespace: model_path        (lines 126, 156)
    models_path,        \* namespace: models_path       (line 269)
    multimodels_path,   \* namespace: multimodels_path  (line 294)
    calls               \* the calls issued to S3 and SageMaker, in order

vars == <<pc, fs, region, bucket, model_path, models_path, multimodels_path, calls>>

(***************************************************************************)
(* The environment a run can start in.                                     *)
(***************************************************************************)
\* what sagemaker_session.default_bucket() can return
Buckets == {"sagemaker-us-east-1-111", "sagemaker-us-east-2-222"}

\* what boto3.Session().region_name can return
Regions == {"us-east-1", "us-east-2"}

(***************************************************************************)
(* String helpers: the Python and SDK string functions the cells rely on.  *)
(***************************************************************************)
SlashPositions(s) == {i \in 1..Len(s) : SubSeq(s, i, i) = "/"}

MaxOf(S) == CHOOSE m \in S : \A n \in S : n <= m

MinOf(S) == CHOOSE m \in S : \A n \in S : m <= n

LastSlash(s) == IF SlashPositions(s) = {} THEN 0 ELSE MaxOf(SlashPositions(s))

\* os.path.split(path)[1]
Basename(path) == SubSeq(path, LastSlash(path) + 1, Len(path))

\* the directory a path is created in
Dirname(path) == SubSeq(path, 1, LastSlash(path) - 1)

\* str.lstrip("/")
RECURSIVE LStripSlash(_)
LStripSlash(s) ==
    IF Len(s) > 0 /\ SubSeq(s, 1, 1) = "/"
    THEN LStripSlash(SubSeq(s, 2, Len(s)))
    ELSE s

\* the part of an s3:// url after the scheme
AfterScheme(url) == SubSeq(url, 6, Len(url))

\* urlparse(url).netloc
S3Netloc(url) ==
    LET rest == AfterScheme(url) IN
    IF SlashPositions(rest) = {} THEN rest
    ELSE SubSeq(rest, 1, MinOf(SlashPositions(rest)) - 1)

\* urlparse(url).path.lstrip("/")
S3KeyPrefix(url) ==
    LET rest == AfterScheme(url) IN
    IF SlashPositions(rest) = {} THEN ""
    ELSE LStripSlash(SubSeq(rest, MinOf(SlashPositions(rest)), Len(rest)))

\* S3Uploader.upload(local_path, desired_s3_uri): the uri of the object written
UploadedUri(local_path, desired_s3_uri) ==
    "s3://" \o S3Netloc(desired_s3_uri) \o "/"
            \o S3KeyPrefix(desired_s3_uri) \o "/" \o Basename(local_path)

(***************************************************************************)
(* The notebook's literals and formatted strings.                          *)
(***************************************************************************)
prefix == "huggingface-multimodel-deploy"

bert_model_path == "models/bertmodel/model"

gpt_model_path == "models/gptmodel/model"

bert_tar == "models/bertmodel.tar.gz"

gpt_tar == "models/gptmodel.tar.gz"

\* the upload prefix written with the trailing slash of multimodels_path
ModelsPathFormat_TrailingSlash(b, p) == "s3://" \o b \o "/" \o p \o "/models/"

ModelsPathFormat(b, p) == "s3://" \o b \o "/" \o p \o "/models"

MultimodelsPathFormat(b, p) == "s3://" \o b \o "/" \o p \o "/models/"

deployment_name == "huggingface-multi-model"

CreateConfigName == deployment_name \o "-epc"

ConfigModelName == deployment_name

CreateEndpointName == deployment_name \o "-ep"

CreateEndpointConfigRef == deployment_name \o "-epc"

InvokeBertEndpointName == deployment_name \o "-ep"

InvokeBertTarget == "bertmodel.tar.gz"

InvokeGptEndpointName == deployment_name \o "-ep"

InvokeGptTarget == "gptmodel.tar.gz"

DeleteModelName == deployment_name

DeleteConfigName == deployment_name \o "-epc"

DeleteEndpointName == deployment_name \o "-ep"

(***************************************************************************)
(* The file system the run can start with: any of the directories the      *)
(* cells expect, each with its parent, and either inference script.        *)
(***************************************************************************)
ModelDirs == {"models", "models/bertmodel", "models/bertmodel/model",
              "models/gptmodel", "models/gptmodel/model"}

ScriptFiles == {"source_dir/model1/inference.py", "source_dir/model2/inference.py"}

ParentClosed(S) == \A p \in S : LastSlash(p) = 0 \/ Dirname(p) \in S

InitialFileSystems ==
    {D \cup F : D \in {X \in SUBSET ModelDirs : ParentClosed(X)}, F \in SUBSET ScriptFiles}

Init ==
    /\ pc = "setup"
    /\ fs \in InitialFileSystems
    /\ region = ""
    /\ bucket = ""
    /\ model_path = ""
    /\ models_path = ""
    /\ multimodels_path = ""
    /\ calls = <<>>

\* a statement raised: the cell stops and the run with it
Raise == pc' = "raised"

Call(op, name, arg, ok) == [op |-> op, name |-> name, arg |-> arg, ok |-> ok]

\* How the statements around one service call can end: a statement before the
\* call raises (no call is made), the call raises, the call returns and a later
\* statement reading its response raises, or all of them return.
BeforeCall == "raised_before_call"

CallRaised == "call_raised"

AfterCall == "raised_after_call"

Returned == "returned"

\* one call to a service: once made it is logged, with ok telling that it returned
Issue(op, name, arg, outcome, next) ==
    /\ calls' = IF outcome = BeforeCall THEN calls
                ELSE Append(calls, Call(op, name, arg, outcome # CallRaised))
    /\ pc' = IF outcome = Returned THEN next ELSE "raised"

(***************************************************************************)
(* Shell commands (lines starting with !): a failing command prints an     *)
(* error and the cell goes on.                                             *)
(***************************************************************************)
\* mkdir path
ShMkdir(F, path) ==
    IF path \notin F /\ Dirname(path) \in F THEN F \cup {path} ELSE F

\* cp src dst
ShCp(F, src, dst) ==
    IF src \in F /\ Dirname(dst) \in F THEN F \cup {dst} ELSE F

\* tar -czvf archive -C dir . : the file systems it can leave.  With dir
\* missing tar exits with an error, but -z has by then started the compressor
\* that creates the archive, which may or may not have made the file.
ShTar(F, archive, dir) ==
    IF Dirname(archive) \notin F THEN {F}
    ELSE IF dir \in F THEN {F \cup {archive}}
    ELSE {F, F \cup {archive}}

(***************************************************************************)
(* The cells, in notebook order.                                           *)
(***************************************************************************)
\* lines 77-91: role, region, session, bucket, prefix, sm_client.  A statement
\* that raises leaves the names assigned before it bound: region from line 82,
\* bucket from line 84.
Setup ==
    /\ pc = "setup"
    /\ \E r \in Regions, b \in Buckets :
        \E outcome \in {"raised_before_region", "raised_before_bucket",
                        "raised_after_bucket", "returned"} :
            /\ region' = IF outcome = "raised_before_region" THEN region ELSE r
            /\ bucket' = IF outcome \in {"raised_before_region", "raised_before_bucket"}
                         THEN bucket ELSE b
            /\ pc' = IF outcome = "returned" THEN "pip_install" ELSE "raised"
    /\ UNCHANGED <<fs, model_path, models_path, multimodels_path, calls>>

\* line 111: !pip install
PipInstall ==
    /\ pc = "pip_install"
    /\ pc' = "save_bert"
    /\ UNCHANGED <<fs, region, bucket, model_path, models_path, multimodels_path, calls>>

\* lines 120-132 and 150-162: download a pretrained model and its tokenizer,
\* bind model_path, make the directory if it is missing (os.mkdir: the parent
\* must exist), save the model and then the tokenizer.  A save that raises
\* leaves the directory and the files written so far.
SaveModel(here, path, model_files, tokenizer_files, next) ==
    /\ pc = here
    /\ \E outcome \in {"download_raised", "model_save_raised",
                        "tokenizer_save_raised", "returned"} :
        IF outcome = "download_raised"
        THEN /\ Raise
             /\ UNCHANGED <<fs, model_path>>
        ELSE /\ model_path' = path
             /\ IF path \notin fs /\ Dirname(path) \notin fs
                THEN /\ Raise
                     /\ UNCHANGED fs
                ELSE \E written \in SUBSET (model_files \cup tokenizer_files) :
                        /\ outcome = "model_save_raised" => written \subseteq model_files
                        /\ outcome = "tokenizer_save_raised" => model_files \subseteq written
                        /\ outcome = "returned" => written = model_files \cup tokenizer_files
                        /\ fs' = fs \cup {path} \cup {path \o "/" \o f : f \in written}
                        /\ pc' = IF outcome = "returned" THEN next ELSE "raised"
    /\ UNCHANGED <<region, bucket, models_path, multimodels_path, calls>>

SaveBert ==
    SaveModel("save_bert", bert_model_path,
              {"config.json", "pytorch_model.bin"}, {"vocab.txt"}, "save_gpt")

SaveGpt ==
    SaveModel("save_gpt", gpt_model_path,
              {"config.json", "pytorch_model.bin"}, {"vocab.json", "merges.txt"},
              "copy_bert_script")

\* lines 192-194 and 221-223: !mkdir <model>/code, ! cp inference.py into it
CopyScript(here, dir, script, next) ==
    /\ pc = here
    /\ fs' = ShCp(ShMkdir(fs, dir \o "/code"), script, dir \o "/code/inference.py")
    /\ pc' = next
    /\ UNCHANGED <<region, bucket, model_path, models_path, multimodels_path, calls>>

CopyBertScript ==
    CopyScript("copy_bert_script", "models/bertmodel",
               "source_dir/model1/inference.py", "show_bert_script")

CopyGptScript ==
    CopyScript("copy_gpt_script", "models/gptmodel",
               "source_dir/model2/inference.py", "show_gpt_script")

\* lines 203 and 232: !pygmentize
ShowScript(here, next) ==
    /\ pc = here
    /\ pc' = next
    /\ UNCHANGED <<fs, region, bucket, model_path, models_path, multimodels_path, calls>>

ShowBertScript == ShowScript("show_bert_script", "copy_gpt_script")

ShowGptScript == ShowScript("show_gpt_script", "package_models")

\* lines 250-251: !tar both model directories
PackageModels ==
    /\ pc = "package_models"
    /\ \E F1 \in ShTar(fs, bert_tar, "models/bertmodel") :
        \E F2 \in ShTar(F1, gpt_tar, "models/gptmodel") : fs' = F2
    /\ pc' = "upload_bert"
    /\ UNCHANGED <<region, bucket, model_path, models_path, multimodels_path, calls>>

\* S3Uploader.upload(local, uri): it raises before any request when the session
\* cannot be made or the file is missing; its result is not read
Upload(local, uri, next) ==
    \E outcome \in {BeforeCall, CallRaised, Returned} :
        /\ local \notin fs => outcome = BeforeCall
        /\ Issue("upload", UploadedUri(local, uri), local, outcome, next)

\* lines 267-271: import of S3Uploader, models_path, upload of the BERT archive
UploadBert ==
    /\ pc = "upload_bert"
    /\ \E imported \in BOOLEAN :
        IF ~imported
        THEN /\ Raise
             /\ UNCHANGED <<models_path, calls>>
        ELSE /\ models_path' = ModelsPathFormat(bucket, prefix)
             /\ Upload(bert_tar, models_path', "upload_gpt")
    /\ UNCHANGED <<fs, region, bucket, model_path, multimodels_path>>

\* line 272: upload of the GPT-2 archive
UploadGpt ==
    /\ pc = "upload_gpt"
    /\ Upload(gpt_tar, models_path, "set_multimodels_path")
    /\ UNCHANGED <<fs, region, bucket, model_path, models_path, multimodels_path>>

\* lines 294-295
SetMultimodelsPath ==
    /\ pc = "set_multimodels_path"
    /\ multimodels_path' = MultimodelsPathFormat(bucket, prefix)
    /\ pc' = "create_model"
    /\ UNCHANGED <<fs, region, bucket, model_path, models_path, calls>>

\* lines 305-323: sm_client.create_model; get_execution_role() is evaluated first
CreateModel ==
    /\ pc = "create_model"
    /\ \E outcome \in {BeforeCall, CallRaised, Returned} :
        Issue("create_model", deployment_name, multimodels_path, outcome,
              "create_endpoint_config")
    /\ UNCHANGED <<fs, region, bucket, model_path, models_path, multimodels_path>>

\* lines 326-338: sm_client.create_endpoint_config
CreateEndpointConfig ==
    /\ pc = "create_endpoint_config"
    /\ \E outcome \in {CallRaised, Returned} :
        Issue("create_endpoint_config", CreateConfigName, ConfigModelName, outcome,
              "create_endpoint")
    /\ UNCHANGED <<fs, region, bucket, model_path, models_path, multimodels_path>>

\* lines 341-346: sm_client.create_endpoint
CreateEndpoint ==
    /\ pc = "create_endpoint"
    /\ \E outcome \in {CallRaised, Returned} :
        Issue("create_endpoint", CreateEndpointName, CreateEndpointConfigRef, outcome,
              "invoke_bert")
    /\ UNCHANGED <<fs, region, bucket, model_path, models_path, multimodels_path>>

\* lines 365-376: boto3.client, invoke_client.invoke_endpoint with TargetModel
\* bertmodel.tar.gz, then the read of the response body
InvokeBert ==
    /\ pc = "invoke_bert"
    /\ \E outcome \in {BeforeCall, CallRaised, AfterCall, Returned} :
        Issue("invoke_endpoint", InvokeBertEndpointName, InvokeBertTarget, outcome,
              "invoke_gpt")
    /\ UNCHANGED <<fs, region, bucket, model_path, models_path, multimodels_path>>

\* lines 394-406: boto3.client, invoke_client.invoke_endpoint with TargetModel
\* gptmodel.tar.gz, then the read and decoding of the response body
InvokeGpt ==
    /\ pc = "invoke_gpt"
    /\ \E outcome \in {BeforeCall, CallRaised, AfterCall, Returned} :
        Issue("invoke_endpoint", InvokeGptEndpointName, InvokeGptTarget, outcome,
              "delete_model")
    /\ UNCHANGED <<fs, region, bucket, model_path, models_path, multimodels_path>>

\* line 437: sm_client.delete_model
DeleteModel ==
    /\ pc = "delete_model"
    /\ \E outcome \in {CallRaised, Returned} :
        Issue("delete_model", DeleteModelName, "", outcome, "delete_endpoint_config")
    /\ UNCHANGED <<fs, region, bucket, model_path, models_path, multimodels_path>>

\* line 438: sm_client.delete_endpoint_config
DeleteEndpointConfig ==
    /\ pc = "delete_endpoint_config"
    /\ \E outcome \in {CallRaised, Returned} :
        Issue("delete_endpoint_config", DeleteConfigName, "", outcome, "delete_endpoint")
    /\ UNCHANGED <<fs, region, bucket, model_path, models_path, multimodels_path>>

\* line 439: sm_client.delete_endpoint
DeleteEndpoint ==
    /\ pc = "delete_endpoint"
    /\ \E outcome \in {CallRaised, Returned} :
        Issue("delete_endpoint", DeleteEndpointName, "", outcome, "done")
    /\ UNCHANGED <<fs, region, bucket, model_path, models_path, multimodels_path>>

Next ==
    \/ Setup
    \/ PipInstall
    \/ SaveBert
    \/ SaveGpt
    \/ CopyBertScript
    \/ ShowBertScript
    \/ CopyGptScript
    \/ ShowGptScript
    \/ PackageModels
    \/ UploadBert
    \/ UploadGpt
    \/ SetMultimodelsPath
    \/ CreateModel
    \/ CreateEndpointConfig
    \/ CreateEndpoint
    \/ InvokeBert
    \/ InvokeGpt
    \/ DeleteModel
    \/ DeleteEndpointConfig
    \/ DeleteEndpoint

Spec == Init /\ [][Next]_vars

(***************************************************************************)
(* Reading the call log.                                                   *)
(***************************************************************************)
SageMakerOps ==
    {"create_model", "create_endpoint_config", "create_endpoint", "invoke_endpoint",
     "delete_model", "delete_endpoint_config", "delete_endpoint"}

IsSageMakerCall(c) == c.op \in SageMakerOps

\* the calls made through sm_client and invoke_client, in the order issued
SageMakerCalls == SelectSeq(calls, IsSageMakerCall)

\* the order the claim gives; arg is the TargetModel of an invoke
ClaimedOrder ==
    << [op |-> "create_model",           target |-> ""],
       [op |-> "create_endpoint_config", target |-> ""],
       [op |-> "create_endpoint",        target |-> ""],
       [op |-> "invoke_endpoint",        target |-> "bertmodel.tar.gz"],
       [op |-> "invoke_endpoint",        target |-> "gptmodel.tar.gz"],
       [op |-> "delete_model",           target |-> ""],
       [op |-> "delete_endpoint_config", target |-> ""],
       [op |-> "delete_endpoint",        target |-> ""] >>

\* call i is a successful op on name
Did(i, op, name) == calls[i].op = op /\ calls[i].name = name /\ calls[i].ok

\* the calls follow the claimed order as far as the run got, none is repeated
\* and none follows a call that raised
InClaimedOrder ==
    /\ Len(SageMakerCalls) <= Len(ClaimedOrder)
    /\ \A i \in 1..Len(SageMakerCalls) :
        /\ SageMakerCalls[i].op = ClaimedOrder[i].op
        /\ SageMakerCalls[i].op = "invoke_endpoint"
              => SageMakerCalls[i].arg = ClaimedOrder[i].target
    /\ \A i \in 1..Len(calls) : i < Len(calls) => calls[i].ok
    /\ pc = "done" => Len(SageMakerCalls) = Len(ClaimedOrder)

\* every endpoint config names a model created before it
ConfigNamesCreatedModel ==
    \A c \in 1..Len(calls) :
        calls[c].op = "create_endpoint_config"
            => \E m \in 1..(c - 1) : Did(m, "create_model", calls[c].arg)

\* every invoke names a live endpoint, and its TargetModel is an object uploaded
\* earlier at ModelDataUrl + TargetModel of the model behind that endpoint
InvokeNamesLiveEndpointAndUploadedModel ==
    \A i \in 1..Len(calls) :
        calls[i].op = "invoke_endpoint" =>
            \E e \in 1..(i - 1) :
                /\ Did(e, "create_endpoint", calls[i].name)
                /\ \A d \in (e + 1)..(i - 1) :
                        ~(calls[d].op = "delete_endpoint" /\ calls[d].name = calls[i].name)
                /\ \E c \in 1..(e - 1) :
                    /\ Did(c, "create_endpoint_config", calls[e].arg)
                    /\ \E m \in 1..(c - 1) :
                        /\ Did(m, "create_model", calls[c].arg)
                        /\ \E u \in 1..(i - 1) :
                              Did(u, "upload", calls[m].arg \o calls[i].arg)

DeleteOf(op) ==
    CASE op = "create_model" -> "delete_model"
      [] op = "create_endpoint_config" -> "delete_endpoint_config"
      [] op = "create_endpoint" -> "delete_endpoint"

CreateOps == {"create_model", "create_endpoint_config", "create_endpoint"}

\* at the end of a full run each created resource was deleted exactly once,
\* after its creation and under the name it was created with
EachCreatedDeletedOnce ==
    pc = "done" =>
        /\ \A c \in 1..Len(calls) :
            calls[c].op \in CreateOps =>
                /\ Cardinality({d \in 1..Len(calls) :
                        calls[d].op = DeleteOf(calls[c].op)}) = 1
                /\ \E d \in (c + 1)..Len(calls) :
                        Did(d, DeleteOf(calls[c].op), calls[c].name)
        /\ Cardinality({c \in 1..Len(calls) : calls[c].op \in CreateOps}) = 3

\* C9: in a top-to-bottom run the SageMaker calls are issued in the order
\* create_model, create_endpoint_config, create_endpoint, invoke_endpoint
\* (bertmodel.tar.gz), invoke_endpoint (gptmodel.tar.gz), delete_model,
\* delete_endpoint_config, delete_endpoint, none repeated and none after a call
\* that raised; every invoke names an endpoint created and not yet deleted and a
\* TargetModel uploaded earlier under the model's ModelDataUrl; the endpoint
\* config names a model created before it; and a run that reaches the end has
\* deleted each of the three created resources exactly once under its own name.
C9_NotebookCallOrder ==
    /\ InClaimedOrder
    /\ ConfigNamesCreatedModel
    /\ InvokeNamesLiveEndpointAndUploadedModel
    /\ EachCreatedDeletedOnce

\* C9 witness: a run that reached the end, with both uploads and all eight calls
C9_FullRun ==
    /\ pc = "done"
    /\ Len(calls) = 10
    /\ Len(SageMakerCalls) = 8
    /\ \A i \in 1..Len(calls) : calls[i].ok

====
